---- MODULE Spec2Model ----
(***************************************************************************)
(* Model of src/src/llms/llm.py: the chat-model client factory and cache.  *)
(*                                                                         *)
(* Python strings are sequences of one-character strings, so that          *)
(* str.upper, str.lower, str.startswith, slicing, concatenation and the    *)
(* substring test are computed as the code computes them.  Python values   *)
(* are tagged records (Val); a dict is a function from keys to values.     *)
(***************************************************************************)
EXTENDS Integers, Sequences, FiniteSets, TLC

VARIABLES
    environ,     \* os.environ: sequence of <<name, value>>, in iteration order
    yaml_file,   \* what load_yaml_config finds at the configuration path
    network,     \* outcome of an HTTP GET, per URL
    llm_cache,   \* _llm_cache: role -> client, for the roles that are cached
    objects,     \* the client objects constructed so far
    pc,          \* per thread: position inside get_llm_by_type
    local,       \* per thread: llm_type and llm of the call in progress
    ret          \* the last completed call: its arguments and its outcome

vars == <<environ, yaml_file, network, llm_cache, objects, pc, local, ret>>

(***************************************************************************)
(* String literals of the source.                                          *)
(***************************************************************************)
reasoning == <<"r","e","a","s","o","n","i","n","g">>
basic == <<"b","a","s","i","c">>
vision == <<"v","i","s","i","o","n">>
code == <<"c","o","d","e">>
s_REASONING_MODEL == <<"R","E","A","S","O","N","I","N","G","_","M","O","D","E","L">>
s_BASIC_MODEL == <<"B","A","S","I","C","_","M","O","D","E","L">>
s_VISION_MODEL == <<"V","I","S","I","O","N","_","M","O","D","E","L">>
s_CODE_MODEL == <<"C","O","D","E","_","M","O","D","E","L">>
s_MODEL_suffix == <<"_","M","O","D","E","L","_","_">>
s_api_base == <<"a","p","i","_","b","a","s","e">>
s_api_key == <<"a","p","i","_","k","e","y">>
s_streaming == <<"s","t","r","e","a","m","i","n","g">>
s_max_retries == <<"m","a","x","_","r","e","t","r","i","e","s">>
s_verify_ssl == <<"v","e","r","i","f","y","_","s","s","l">>
s_http_client == <<"h","t","t","p","_","c","l","i","e","n","t">>
s_http_async_client == <<"h","t","t","p","_","a","s","y","n","c","_","c","l","i","e","n","t">>
s_azure_endpoint == <<"a","z","u","r","e","_","e","n","d","p","o","i","n","t">>
s_base_url == <<"b","a","s","e","_","u","r","l">>
s_extra_body == <<"e","x","t","r","a","_","b","o","d","y">>
s_enable_thinking == <<"e","n","a","b","l","e","_","t","h","i","n","k","i","n","g">>
s_model == <<"m","o","d","e","l">>
s_lm_studio == <<"l","m","-","s","t","u","d","i","o">>
s_dashscope_dot == <<"d","a","s","h","s","c","o","p","e",".">>
s_AZURE_OPENAI_ENDPOINT == <<"A","Z","U","R","E","_","O","P","E","N","A","I","_","E","N","D","P","O","I","N","T">>
s_LMSTUDIO_LAN_HOST == <<"L","M","S","T","U","D","I","O","_","L","A","N","_","H","O","S","T">>
s_http_scheme == <<"h","t","t","p",":","/","/">>
s_port_1234 == <<":","1","2","3","4">>
s_v1_models == <<"/","v","1","/","m","o","d","e","l","s">>
s_v1 == <<"/","v","1">>
host_localhost == <<"h","t","t","p",":","/","/","l","o","c","a","l","h","o","s","t",":","1","2","3","4">>
host_loopback == <<"h","t","t","p",":","/","/","1","2","7",".","0",".","0",".","1",":","1","2","3","4">>
host_lan == <<"h","t","t","p",":","/","/","1","9","2",".","1","6","8",".","2",".","6","5",":","1","2","3","4">>

(***************************************************************************)
(* Python values.                                                          *)
(***************************************************************************)
StrV(x)  == [t |-> "str",  s |-> x,    b |-> FALSE, n |-> 0, d |-> <<>>]
BoolV(x) == [t |-> "bool", s |-> <<>>, b |-> x,     n |-> 0, d |-> <<>>]
IntV(x)  == [t |-> "int",  s |-> <<>>, b |-> FALSE, n |-> x, d |-> <<>>]
DictV(x) == [t |-> "dict", s |-> <<>>, b |-> FALSE, n |-> 0, d |-> x]
NoneV    == [t |-> "none", s |-> <<>>, b |-> FALSE, n |-> 0, d |-> <<>>]
\* httpx.Client(verify=x) and httpx.AsyncClient(verify=x)
HttpxClient(x)      == [t |-> "httpx.Client", s |-> <<>>, b |-> x, n |-> 0, d |-> <<>>]
HttpxAsyncClient(x) == [t |-> "httpx.AsyncClient", s |-> <<>>, b |-> x, n |-> 0, d |-> <<>>]

\* Python truth value of v, as `if v:` and `not v` and `v or w` take it
Truthy(v) ==
    CASE v.t = "str"  -> v.s # <<>>
      [] v.t = "bool" -> v.b
      [] v.t = "int"  -> v.n # 0
      [] v.t = "none" -> FALSE
      [] v.t = "dict" -> DOMAIN v.d # {}
      [] OTHER        -> TRUE

\* dict operations
EmptyDict   == <<>>
Put(d, k, v) == [x \in DOMAIN d \cup {k} |-> IF x = k THEN v ELSE d[x]]
Del(d, k)    == [x \in DOMAIN d \ {k} |-> d[x]]
Get(d, k, default) == IF k \in DOMAIN d THEN d[k] ELSE default
SetDefault(d, k, v) == IF k \in DOMAIN d THEN d ELSE Put(d, k, v)
\* faulty variant: the left side wins
MergeLeftWins(a, b) == [x \in DOMAIN a \cup DOMAIN b |-> IF x \in DOMAIN a THEN a[x] ELSE b[x]]
\* {**a, **b}
Merge(a, b)  == [x \in DOMAIN a \cup DOMAIN b |-> IF x \in DOMAIN b THEN b[x] ELSE a[x]]

(***************************************************************************)
(* str methods.                                                            *)
(***************************************************************************)
UpperCase == <<"A","B","C","D","E","F","G","H","I","J","K","L","M","N","O","P","Q","R","S","T","U","V","W","X","Y","Z">>
LowerCase == <<"a","b","c","d","e","f","g","h","i","j","k","l","m","n","o","p","q","r","s","t","u","v","w","x","y","z">>

Upper(str) ==
    [i \in 1..Len(str) |->
        IF \E j \in 1..Len(LowerCase) : LowerCase[j] = str[i]
        THEN UpperCase[CHOOSE j \in 1..Len(LowerCase) : LowerCase[j] = str[i]]
        ELSE str[i]]

Lower(str) ==
    [i \in 1..Len(str) |->
        IF \E j \in 1..Len(UpperCase) : UpperCase[j] = str[i]
        THEN LowerCase[CHOOSE j \in 1..Len(UpperCase) : UpperCase[j] = str[i]]
        ELSE str[i]]

StartsWith(str, prefix) ==
    /\ Len(prefix) <= Len(str)
    /\ SubSeq(str, 1, Len(prefix)) = prefix

\* sub in str
Contains(sub, str) ==
    \E i \in 1..(Len(str) - Len(sub) + 1) : SubSeq(str, i, i + Len(sub) - 1) = sub

(***************************************************************************)
(* The environment.                                                        *)
(***************************************************************************)
\* os.getenv(name)
GetEnv(env, name) ==
    IF \E i \in 1..Len(env) : env[i][1] = name
    THEN StrV(env[CHOOSE i \in 1..Len(env) : env[i][1] = name][2])
    ELSE NoneV

Roles == {reasoning, basic, vision, code}

_get_llm_type_config_keys ==
    (reasoning :> s_REASONING_MODEL) @@ (basic :> s_BASIC_MODEL)
        @@ (vision :> s_VISION_MODEL) @@ (code :> s_CODE_MODEL)

\* _get_env_llm_conf: later entries of os.environ overwrite earlier ones that
\* lower-case to the same key
_get_env_llm_conf(llm_type, env) ==
    LET prefix == Upper(llm_type) \o s_MODEL_suffix
        conf_key(i) == Lower(SubSeq(env[i][1], Len(prefix) + 1, Len(env[i][1])))
        hits == {i \in 1..Len(env) : StartsWith(env[i][1], prefix)}
        last(k) == CHOOSE i \in hits :
                      /\ conf_key(i) = k
                      /\ \A j \in hits : conf_key(j) = k => j <= i
    IN  [k \in {conf_key(i) : i \in hits} |-> StrV(env[last(k)][2])]

(***************************************************************************)
(* LM Studio detection.                                                    *)
(***************************************************************************)
candidate_hosts == <<host_localhost, host_loopback, host_lan>>

Refused  == [raises |-> TRUE,  status_code |-> 0]
Response(status) == [raises |-> FALSE, status_code |-> status]

\* httpx.get(url, timeout=1.0): an address nobody listens on refuses
HttpGet(net, url) == IF url \in DOMAIN net THEN net[url] ELSE Refused

\* the for loop of _detect_lmstudio_base_url from candidate i on; gets is the
\* sequence of URLs requested so far
RECURSIVE ProbeFrom(_, _, _, _)
ProbeFrom(hosts, i, net, gets) ==
    IF i > Len(hosts) THEN [raises |-> FALSE, url |-> NoneV, gets |-> gets]
    ELSE LET url == hosts[i] \o s_v1_models
             res == HttpGet(net, url)
         IN  IF ~res.raises /\ res.status_code = 200
             THEN [raises |-> FALSE, url |-> StrV(hosts[i] \o s_v1),
                   gets |-> Append(gets, url)]
             ELSE ProbeFrom(hosts, i + 1, net, Append(gets, url))

CandidateHosts(env) ==
    LET lan_host == GetEnv(env, s_LMSTUDIO_LAN_HOST)
    IN  IF Truthy(lan_host)
        THEN <<s_http_scheme \o lan_host.s \o s_port_1234>> \o candidate_hosts
        ELSE candidate_hosts

\* faulty variant: LMSTUDIO_LAN_HOST is not read
DetectFixedHostsOnly(env, net) == ProbeFrom(candidate_hosts, 1, net, <<>>)
_detect_lmstudio_base_url(env, net) == ProbeFrom(CandidateHosts(env), 1, net, <<>>)

(***************************************************************************)
(* _create_llm_use_conf.                                                   *)
(***************************************************************************)
NoError  == [exc |-> "", msg |-> "", llm_type |-> <<>>]
Error(exc, msg, llm_type) == [exc |-> exc, msg |-> msg, llm_type |-> llm_type]
NoClient == [cls |-> "", kwargs |-> EmptyDict]
New(cls, kwargs) == [cls |-> cls, kwargs |-> kwargs]

max_retries_default == 3

Raise(err, merged, gets) ==
    [raised |-> err, merged_conf |-> merged, resolved_conf |-> EmptyDict,
     client |-> NoClient, gets |-> gets]
Return(client, merged, resolved, gets) ==
    [raised |-> NoError, merged_conf |-> merged, resolved_conf |-> resolved,
     client |-> client, gets |-> gets]

\* lines 123-135: the max_retries default, then verify_ssl popped and the
\* transports injected
WithDefaults(merged_conf) ==
    LET m1 == SetDefault(merged_conf, s_max_retries, IntV(max_retries_default))
        verify_ssl == Get(m1, s_verify_ssl, BoolV(TRUE))
        m2 == Del(m1, s_verify_ssl)
    IN  IF ~Truthy(verify_ssl)
        THEN Put(Put(m2, s_http_client, HttpxClient(FALSE)),
                 s_http_async_client, HttpxAsyncClient(FALSE))
        ELSE m2

\* faulty variant: no placeholder api_key
LmStudioConfNoKey(lmstudio_base) ==
    (s_api_base :> lmstudio_base) @@ (s_streaming :> BoolV(TRUE))

\* lines 113-117: the configuration of a detected LM Studio server
LmStudioConf(lmstudio_base) ==
    (s_api_base :> lmstudio_base) @@ (s_api_key :> StrV(s_lm_studio))
        @@ (s_streaming :> BoolV(TRUE))

\* faulty variant: the environment is not read
UseAzureConfOnly(m, env) == s_azure_endpoint \in DOMAIN m

\* line 137: the Azure test
UseAzure(m, env) ==
    s_azure_endpoint \in DOMAIN m \/ Truthy(GetEnv(env, s_AZURE_OPENAI_ENDPOINT))

\* faulty variant: thinking for every role
ExtraBodyThinking(llm_type) == DictV((s_enable_thinking :> BoolV(TRUE)))

\* lines 142-145: extra_body of the Dashscope client
ExtraBody(llm_type) ==
    IF llm_type = reasoning
    THEN DictV((s_enable_thinking :> BoolV(TRUE)))
    ELSE DictV((s_enable_thinking :> BoolV(FALSE)))

\* faulty variant: base_url read, not popped
RenameKeepsBaseUrl(m) == Put(m, s_api_base, Get(m, s_base_url, NoneV))

\* line 149: merged_conf["api_base"] = merged_conf.pop("base_url", None)
RenameBaseUrl(m) == Put(Del(m, s_base_url), s_api_base, Get(m, s_base_url, NoneV))

\* lines 137-165: the provider dispatch on the final options
Dispatch(llm_type, m, merged, resolved, env, net, gets) ==
    IF UseAzure(m, env)
    THEN Return(New("AzureChatOpenAI", m), merged, resolved, gets)
    ELSE IF s_base_url \in DOMAIN m /\ m[s_base_url].t \notin {"str", "dict"}
    THEN Raise(Error("TypeError", "argument is not iterable", llm_type), merged, gets)
    ELSE IF /\ s_base_url \in DOMAIN m
            /\ IF m[s_base_url].t = "str"
               THEN Contains(s_dashscope_dot, m[s_base_url].s)
               ELSE s_dashscope_dot \in DOMAIN m[s_base_url].d
    THEN Return(New("ChatDashscope", Put(m, s_extra_body, ExtraBody(llm_type))),
                merged, resolved, gets)
    ELSE IF llm_type = reasoning
    THEN Return(New("ChatDeepSeek", RenameBaseUrl(m)), merged, resolved, gets)
    ELSE LET base  == Get(m, s_base_url, NoneV)
             det   == IF Truthy(base) THEN [raises |-> FALSE, url |-> base, gets |-> <<>>]
                      ELSE _detect_lmstudio_base_url(env, net)
             kwargs == IF Truthy(det.url)
                       THEN SetDefault(SetDefault(Put(m, s_api_base, det.url),
                                                  s_api_key, StrV(s_lm_studio)),
                                       s_streaming, BoolV(TRUE))
                       ELSE m
         IN  Return(New("ChatOpenAI", kwargs), merged, resolved, gets \o det.gets)

_create_llm_use_conf(llm_type, conf, env, net) ==
    IF llm_type \notin DOMAIN _get_llm_type_config_keys
    THEN Raise(Error("ValueError", "Unknown LLM type", llm_type), EmptyDict, <<>>)
    ELSE IF conf.t # "dict"
    THEN Raise(Error("AttributeError", "no attribute get", llm_type), EmptyDict, <<>>)
    ELSE
    LET config_key == _get_llm_type_config_keys[llm_type]
        llm_conf   == Get(conf.d, config_key, DictV(EmptyDict))
    IN  IF llm_conf.t # "dict"
        THEN Raise(Error("ValueError", "Invalid LLM configuration", llm_type), EmptyDict, <<>>)
        ELSE
        LET env_conf    == _get_env_llm_conf(llm_type, env)
            merged_conf == Merge(llm_conf.d, env_conf)
        IN  IF DOMAIN merged_conf = {}
            THEN LET det == _detect_lmstudio_base_url(env, net)
                     synth == LmStudioConf(det.url)
                 IN  IF Truthy(det.url)
                     THEN Dispatch(llm_type, WithDefaults(synth), merged_conf, synth,
                                   env, net, det.gets)
                     ELSE Raise(Error("ValueError", "No configuration found", llm_type),
                                merged_conf, det.gets)
            ELSE Dispatch(llm_type, WithDefaults(merged_conf), merged_conf, merged_conf,
                          env, net, <<>>)

(***************************************************************************)
(* load_yaml_config (src.config), as get_llm_by_type and                   *)
(* get_configured_llm_models see it: it raises, or it returns the parsed   *)
(* document; an absent file reads as the empty mapping.                    *)
(***************************************************************************)
FileAbsent    == [kind |-> "absent",    doc |-> NoneV]
FileMalformed == [kind |-> "malformed", doc |-> NoneV]
FileWith(doc) == [kind |-> "parsed",    doc |-> doc]

load_yaml_config(file) ==
    CASE file.kind = "absent"    -> [raises |-> FALSE, conf |-> DictV(EmptyDict)]
      [] file.kind = "malformed" -> [raises |-> TRUE,  conf |-> NoneV]
      [] OTHER                   -> [raises |-> FALSE, conf |-> file.doc]

\* get_args(LLMType), in declaration order
LLMTypes == <<basic, reasoning, vision, code>>

(***************************************************************************)
(* Test data: option values, environment variable names, addresses.        *)
(***************************************************************************)
url_dashscope == <<"/","/","d","a","s","h","s","c","o","p","e",".","c","n">>
url_plain     == <<"/","/","a","p","i",".","e","x">>
url_nodot     == <<"/","/","d","a","s","h","s","c","o","p","e","/","x">>
url_azure     == <<"/","/","a","z">>
s_false       == <<"f","a","l","s","e">>
lan_ip        == <<"1","0",".","0",".","0",".","5">>
s_localhost   == <<"l","o","c","a","l","h","o","s","t">>
model_1       == <<"m","1">>
model_2       == <<"m","2">>
s_API_KEY     == <<"A","P","I","_","K","E","Y">>
s_MODEL       == <<"M","O","D","E","L">>

EnvName(llm_type, option) == Upper(llm_type) \o s_MODEL_suffix \o option

\* all sequences over S of length at most n whose entries have distinct names
RECURSIVE EnvSeqs(_, _)
EnvSeqs(S, n) ==
    IF n = 0 THEN {<<>>}
    ELSE LET shorter  == EnvSeqs(S, n - 1)
             extended == {Append(e, p) : e \in shorter, p \in S}
         IN  shorter \cup
             {e \in extended : \A i, j \in 1..Len(e) : i # j => e[i][1] # e[j][1]}

\* the subsets of a set of keys, each as a dict with the given value
Dicts(keys, values) == UNION {[ks -> values] : ks \in SUBSET keys}

lan_url   == s_http_scheme \o lan_ip \o s_port_1234 \o s_v1_models
ProbeUrls == {candidate_hosts[i] \o s_v1_models : i \in 1..Len(candidate_hosts)}
                 \cup {lan_url}
Outcomes  == {Refused, Response(200), Response(404)}

NoCall == [fn |-> "none"]

(***************************************************************************)
(* _create_llm_use_conf applied to one role, one YAML document, one        *)
(* environment and one network: the call is pending in Init and the        *)
(* action performs it.                                                     *)
(***************************************************************************)
Pending(llm_type) ==
    /\ llm_cache = EmptyDict
    /\ objects = {}
    /\ pc = <<"call">>
    /\ local = <<[llm_type |-> llm_type, llm |-> 0]>>
    /\ ret = NoCall

CreateLlmUseConf ==
    /\ pc[1] = "call"
    /\ LET llm_type == local[1].llm_type
           conf == load_yaml_config(yaml_file).conf
           res  == _create_llm_use_conf(llm_type, conf, environ, network)
       IN  ret' = [fn |-> "_create_llm_use_conf", llm_type |-> llm_type,
                   raised |-> res.raised, merged_conf |-> res.merged_conf,
                   resolved_conf |-> res.resolved_conf, client |-> res.client,
                   gets |-> res.gets]
    /\ pc' = <<"done">>
    /\ UNCHANGED <<environ, yaml_file, network, llm_cache, objects, local>>

NextCreate == CreateLlmUseConf

\* the documents whose section for the role holds the given options
SectionFiles(llm_type, sections) ==
    {FileWith(DictV((_get_llm_type_config_keys[llm_type] :> v))) : v \in sections}

BaseUrlOpts == {EmptyDict} \cup
    {(s_base_url :> StrV(u)) : u \in {url_dashscope, url_plain, url_nodot}}
AzureOpts   == {EmptyDict, (s_azure_endpoint :> StrV(url_azure))}
VerifyOpts  == {EmptyDict, (s_verify_ssl :> BoolV(TRUE)), (s_verify_ssl :> BoolV(FALSE))}
CreateSections ==
    {DictV(Merge(Merge(a, b), c)) : a \in BaseUrlOpts, b \in AzureOpts, c \in VerifyOpts}
        \cup {StrV(model_1), NoneV}

CreateFiles(llm_type) ==
    SectionFiles(llm_type, CreateSections) \cup {FileWith(DictV(EmptyDict)), FileAbsent}

Opt(name, values) == {<<>>} \cup {<< <<name, v>> >> : v \in values}

CreateEnvirons(llm_type) ==
    {az \o vs \o bu \o lan :
        az  \in Opt(s_AZURE_OPENAI_ENDPOINT, {<<>>, url_azure}),
        vs  \in Opt(EnvName(llm_type, s_verify_ssl), {s_false}),
        bu  \in Opt(EnvName(llm_type, s_base_url), {url_dashscope}),
        lan \in Opt(s_LMSTUDIO_LAN_HOST, {lan_ip})}

CreateNetworks == [{lan_url, host_localhost \o s_v1_models} -> Outcomes]

InitCreate ==
    \E llm_type \in Roles :
        /\ Pending(llm_type)
        /\ yaml_file \in CreateFiles(llm_type)
        /\ environ \in CreateEnvirons(llm_type)
        /\ network \in CreateNetworks

SpecCreate == InitCreate /\ [][NextCreate]_vars

(***************************************************************************)
(* The same call over environments that differ in the names of their       *)
(* variables: both cases of one option, other roles' prefixes, a prefix in *)
(* the wrong case.                                                         *)
(***************************************************************************)
MaxEnv == 2

MergeSections == {DictV(d) : d \in Dicts({s_api_key, s_API_KEY, s_model}, {StrV(<<"a">>)})}

MergeNames ==
    {EnvName(r, o) : r \in {basic, code}, o \in {s_api_key, s_API_KEY}}
        \cup {basic \o s_MODEL_suffix \o s_api_key}

MergePairs == {<<name, v>> : name \in MergeNames, v \in {<<"b">>, <<"c">>}}

InitMerge ==
    \E llm_type \in Roles :
        /\ Pending(llm_type)
        /\ yaml_file \in SectionFiles(llm_type, MergeSections)
        /\ environ \in EnvSeqs(MergePairs, MaxEnv)
        /\ network = EmptyDict

SpecMerge == InitMerge /\ [][NextCreate]_vars

(***************************************************************************)
(* _detect_lmstudio_base_url over every assignment of outcomes to the      *)
(* candidate addresses.                                                    *)
(***************************************************************************)
DetectLmstudioBaseUrl ==
    /\ pc[1] = "call"
    /\ LET res == _detect_lmstudio_base_url(environ, network)
       IN  ret' = [fn |-> "_detect_lmstudio_base_url", raises |-> res.raises,
                   url |-> res.url, gets |-> res.gets]
    /\ pc' = <<"done">>
    /\ UNCHANGED <<environ, yaml_file, network, llm_cache, objects, local>>

NextProbe == DetectLmstudioBaseUrl

InitProbe ==
    /\ Pending(basic)
    /\ yaml_file = FileAbsent
    /\ environ \in Opt(s_LMSTUDIO_LAN_HOST, {<<>>, lan_ip, s_localhost})
    /\ network \in [ProbeUrls -> Outcomes]

SpecProbe == InitProbe /\ [][NextProbe]_vars

(***************************************************************************)
(* get_llm_by_type, single-threaded: each call runs to completion.  The    *)
(* YAML file, the environment and the network change between calls.        *)
(***************************************************************************)
\* faulty variant: the cache is not consulted
CacheNeverHit(cache, llm_type) == FALSE

\* line 172: llm_type in _llm_cache
CacheHit(cache, llm_type) == llm_type \in DOMAIN cache

\* the client objects constructed for a role
ObjectsOf(objs, llm_type) == {o \in objs : o.llm_type = llm_type}

\* a new object: its identity differs from every earlier one's
NewObject(objs, llm_type) ==
    [id |-> Cardinality(objs) + 1, llm_type |-> llm_type, stored |-> 0]

Outcome(llm_type, raised, llm, constructed) ==
    [fn |-> "get_llm_by_type", llm_type |-> llm_type, raised |-> raised,
     llm |-> llm, constructed |-> constructed]

\* lines 175-176: the configuration is loaded and the client constructed
LoadAndCreate(llm_type) ==
    LET loaded == load_yaml_config(yaml_file)
    IN  IF loaded.raises
        THEN Raise(Error("Exception", "load_yaml_config", llm_type), EmptyDict, <<>>)
        ELSE _create_llm_use_conf(llm_type, loaded.conf, environ, network)

get_llm_by_type(llm_type) ==
    IF CacheHit(llm_cache, llm_type)
    THEN /\ ret' = Outcome(llm_type, NoError, llm_cache[llm_type], FALSE)
         /\ UNCHANGED <<llm_cache, objects>>
    ELSE LET res == LoadAndCreate(llm_type)
             llm == NewObject(objects, llm_type)
         IN  IF res.raised # NoError
             THEN /\ ret' = Outcome(llm_type, res.raised, 0, FALSE)
                  /\ UNCHANGED <<llm_cache, objects>>
             ELSE /\ objects' = objects \cup {[llm EXCEPT !.stored = 1]}
                  /\ llm_cache' = Put(llm_cache, llm_type, llm.id)
                  /\ ret' = Outcome(llm_type, NoError, llm.id, TRUE)

GetLlmByType ==
    \E llm_type \in Roles :
        /\ get_llm_by_type(llm_type)
        /\ UNCHANGED <<environ, yaml_file, network, pc, local>>

\* os.environ[name] = value
SetEnv(name, value) ==
    /\ IF \E i \in 1..Len(environ) : environ[i][1] = name
       THEN environ' = [i \in 1..Len(environ) |->
                           IF environ[i][1] = name THEN <<name, value>> ELSE environ[i]]
       ELSE /\ Len(environ) < MaxEnv
            /\ environ' = Append(environ, <<name, value>>)
    /\ environ' # environ
    /\ UNCHANGED <<yaml_file, network, llm_cache, objects, pc, local, ret>>

\* del os.environ[name]
UnsetEnv(name) ==
    /\ \E i \in 1..Len(environ) : environ[i][1] = name
    /\ environ' = SelectSeq(environ, LAMBDA e : e[1] # name)
    /\ UNCHANGED <<yaml_file, network, llm_cache, objects, pc, local, ret>>

WriteYaml(file) ==
    /\ yaml_file' = file
    /\ yaml_file' # yaml_file
    /\ UNCHANGED <<environ, network, llm_cache, objects, pc, local, ret>>

NetworkChange(net) ==
    /\ network' = net
    /\ network' # network
    /\ UNCHANGED <<environ, yaml_file, llm_cache, objects, pc, local, ret>>

\* every role configured with a plain base_url
AllConfigured ==
    [k \in {_get_llm_type_config_keys[r] : r \in Roles} |->
        DictV((s_base_url :> StrV(url_plain)))]

CacheFiles ==
    {FileAbsent, FileMalformed, FileWith(DictV(AllConfigured)),
     FileWith(DictV(Put(AllConfigured, s_BASIC_MODEL, StrV(model_1))))}

CachePairs ==
    {<<s_LMSTUDIO_LAN_HOST, lan_ip>>, <<s_AZURE_OPENAI_ENDPOINT, url_azure>>,
     <<EnvName(code, s_base_url), url_dashscope>>}

CacheNetworks == [{lan_url} -> {Refused, Response(200)}]

Init ==
    /\ environ = <<>>
    /\ yaml_file = FileAbsent
    /\ network = [u \in {lan_url} |-> Refused]
    /\ llm_cache = EmptyDict
    /\ objects = {}
    /\ pc = <<>>
    /\ local = <<>>
    /\ ret = NoCall

Next ==
    \/ GetLlmByType
    \/ \E p \in CachePairs : SetEnv(p[1], p[2])
    \/ \E p \in CachePairs : UnsetEnv(p[1])
    \/ \E file \in CacheFiles : WriteYaml(file)
    \/ \E net \in CacheNetworks : NetworkChange(net)

Spec == Init /\ [][Next]_vars

(***************************************************************************)
(* get_llm_by_type called once from each of several threads: a thread can  *)
(* be preempted between the cache test, the construction, the store and    *)
(* the return.                                                             *)
(***************************************************************************)
NThreads == 2
Threads  == 1..NThreads

\* the frame of a thread that is not inside get_llm_by_type
NoFrame == [llm_type |-> <<>>, llm |-> 0]

\* lines 172-173: the cache test, and the return of the cached client
Check(t, llm_type) ==
    /\ pc[t] = "idle"
    /\ IF CacheHit(llm_cache, llm_type)
       THEN /\ ret' = Outcome(llm_type, NoError, llm_cache[llm_type], FALSE)
            /\ pc' = [pc EXCEPT ![t] = "done"]
            /\ UNCHANGED local
       ELSE /\ pc' = [pc EXCEPT ![t] = "create"]
            /\ local' = [local EXCEPT ![t] = [llm_type |-> llm_type, llm |-> 0]]
            /\ UNCHANGED ret
    /\ UNCHANGED <<environ, yaml_file, network, llm_cache, objects>>

\* lines 175-176
Create(t) ==
    /\ pc[t] = "create"
    /\ LET llm_type == local[t].llm_type
           res == LoadAndCreate(llm_type)
           llm == NewObject(objects, llm_type)
       IN  IF res.raised # NoError
           THEN /\ ret' = Outcome(llm_type, res.raised, 0, FALSE)
                /\ pc' = [pc EXCEPT ![t] = "done"]
                /\ local' = [local EXCEPT ![t] = NoFrame]
                /\ UNCHANGED objects
           ELSE /\ objects' = objects \cup {llm}
                /\ local' = [local EXCEPT ![t].llm = llm.id]
                /\ pc' = [pc EXCEPT ![t] = "store"]
                /\ UNCHANGED ret
    /\ UNCHANGED <<environ, yaml_file, network, llm_cache>>

\* the objects with the one of identity id marked as stored, after the others
MarkStored(objs, id) ==
    {IF o.id = id
     THEN [o EXCEPT !.stored =
              1 + Cardinality({x \in ObjectsOf(objs, o.llm_type) : x.stored > 0})]
     ELSE o : o \in objs}

\* faulty variant: setdefault, the first store wins
StoreIfAbsent(cache, llm_type, llm) == SetDefault(cache, llm_type, llm)

\* line 177: _llm_cache[llm_type] = llm
StoreInCache(cache, llm_type, llm) == Put(cache, llm_type, llm)

Store(t) ==
    /\ pc[t] = "store"
    /\ llm_cache' = StoreInCache(llm_cache, local[t].llm_type, local[t].llm)
    /\ objects' = MarkStored(objects, local[t].llm)
    /\ pc' = [pc EXCEPT ![t] = "return"]
    /\ UNCHANGED <<environ, yaml_file, network, local, ret>>

\* line 178: return llm
ReturnLlm(t) ==
    /\ pc[t] = "return"
    /\ ret' = Outcome(local[t].llm_type, NoError, local[t].llm, TRUE)
    /\ pc' = [pc EXCEPT ![t] = "done"]
    /\ local' = [local EXCEPT ![t] = NoFrame]
    /\ UNCHANGED <<environ, yaml_file, network, llm_cache, objects>>

NextRace ==
    \E t \in Threads :
        \/ \E llm_type \in Roles : Check(t, llm_type)
        \/ Create(t)
        \/ Store(t)
        \/ ReturnLlm(t)

InitRace ==
    /\ environ = <<>>
    /\ yaml_file = FileWith(DictV(Put(AllConfigured, s_BASIC_MODEL, StrV(model_1))))
    /\ network = EmptyDict
    /\ llm_cache = EmptyDict
    /\ objects = {}
    /\ pc = [t \in Threads |-> "idle"]
    /\ local = [t \in Threads |-> NoFrame]
    /\ ret = NoCall

SpecRace == InitRace /\ [][NextRace]_vars

(***************************************************************************)
(* get_configured_llm_models applied to one YAML file and one environment. *)
(***************************************************************************)
\* one turn of the for loop, lines 194-208: the models found so far with the
\* one of llm_type added; the merge raises when the section is no mapping
ModelsWith(configured_models, llm_type, conf, env) ==
    LET config_key == Get(_get_llm_type_config_keys, llm_type, <<>>)
        yaml_conf  == IF config_key # <<>>
                      THEN Get(conf.d, config_key, DictV(EmptyDict))
                      ELSE DictV(EmptyDict)
    IN  IF yaml_conf.t # "dict"
        THEN [raises |-> TRUE, models |-> configured_models]
        ELSE LET merged_conf == Merge(yaml_conf.d, _get_env_llm_conf(llm_type, env))
                 model_name  == Get(merged_conf, s_model, NoneV)
             IN  [raises |-> FALSE,
                  models |-> IF Truthy(model_name)
                             THEN Put(configured_models, llm_type,
                                      Append(Get(configured_models, llm_type, <<>>),
                                             model_name))
                             ELSE configured_models]

RECURSIVE ModelsFrom(_, _, _, _)
ModelsFrom(i, configured_models, conf, env) ==
    IF i > Len(LLMTypes) THEN [raises |-> FALSE, models |-> configured_models]
    ELSE LET turn == ModelsWith(configured_models, LLMTypes[i], conf, env)
         IN  IF turn.raises THEN turn
             ELSE ModelsFrom(i + 1, turn.models, conf, env)

\* lines 189-210: the body of the try block
TryConfiguredModels(file, env) ==
    LET loaded == load_yaml_config(file)
    IN  IF loaded.raises \/ loaded.conf.t # "dict"
        THEN [raises |-> TRUE, models |-> EmptyDict]
        ELSE ModelsFrom(1, EmptyDict, loaded.conf, env)

\* faulty variant: the models found before the failure are returned
ConfiguredModelsKeepsPartial(file, env) ==
    LET try == TryConfiguredModels(file, env)
    IN  [raises |-> FALSE, warned |-> try.raises, models |-> try.models]

\* lines 212-215: except Exception: print the warning, return {}
get_configured_llm_models(file, env) ==
    LET try == TryConfiguredModels(file, env)
    IN  IF try.raises
        THEN [raises |-> FALSE, warned |-> TRUE,  models |-> EmptyDict]
        ELSE [raises |-> FALSE, warned |-> FALSE, models |-> try.models]

GetConfiguredLlmModels ==
    /\ pc[1] = "call"
    /\ LET res == get_configured_llm_models(yaml_file, environ)
       IN  ret' = [fn |-> "get_configured_llm_models", raises |-> res.raises,
                   warned |-> res.warned, models |-> res.models]
    /\ pc' = <<"done">>
    /\ UNCHANGED <<environ, yaml_file, network, llm_cache, objects, local>>

NextModels == GetConfiguredLlmModels

\* a section: no options, a model, an empty model, or a value that is no mapping
ModelSections ==
    {DictV(EmptyDict), DictV((s_model :> StrV(model_1))), DictV((s_model :> StrV(<<>>))),
     StrV(model_1)}

ModelFiles ==
    {FileAbsent, FileMalformed, FileWith(NoneV)} \cup
    {FileWith(DictV(d)) :
        d \in Dicts({_get_llm_type_config_keys[r] : r \in Roles}, ModelSections)}

ModelEnvirons ==
    {a \o b \o c :
        a \in Opt(EnvName(basic, s_model), {model_2}),
        b \in Opt(EnvName(code, s_MODEL), {model_2}),
        c \in Opt(EnvName(vision, s_model), {<<>>})}

InitModels ==
    /\ Pending(basic)
    /\ yaml_file \in ModelFiles
    /\ environ \in ModelEnvirons
    /\ network = EmptyDict

SpecModels == InitModels /\ [][NextModels]_vars

(***************************************************************************)
(* What the properties read off a state: the inputs of the call.           *)
(***************************************************************************)
Created     == ret.fn = "_create_llm_use_conf"
RoleOf      == local[1].llm_type
RolePrefix  == _get_llm_type_config_keys[RoleOf] \o <<"_", "_">>
\* the YAML section of the role: a Python value, or absent
HasSection  == /\ yaml_file.kind = "parsed"
               /\ _get_llm_type_config_keys[RoleOf] \in DOMAIN yaml_file.doc.d
Section     == yaml_file.doc.d[_get_llm_type_config_keys[RoleOf]]
YamlOptions == IF HasSection THEN Section.d ELSE EmptyDict
\* the environment variables that carry the role's prefix, and each one's option
RoleVars    == {i \in 1..Len(environ) : StartsWith(environ[i][1], RolePrefix)}
OptionOf(i) == Lower(SubSeq(environ[i][1], Len(RolePrefix) + 1, Len(environ[i][1])))
EnvOptions  == {OptionOf(i) : i \in RoleVars}
\* the candidates in probing order, and the first one that answers 200
Answers(host) == HttpGet(network, host \o s_v1_models) = Response(200)
\* LMSTUDIO_LAN_HOST is in the environment; a candidate with an empty host has
\* no address and never answers
LanHostSet  == \E i \in 1..Len(environ) : environ[i][1] = s_LMSTUDIO_LAN_HOST
Candidates  ==
    IF LanHostSet
    THEN <<s_http_scheme \o GetEnv(environ, s_LMSTUDIO_LAN_HOST).s \o s_port_1234,
           host_localhost, host_loopback, host_lan>>
    ELSE <<host_localhost, host_loopback, host_lan>>
Answering   == {i \in 1..Len(Candidates) : Answers(Candidates[i])}
FirstAnswering == CHOOSE i \in Answering : \A j \in Answering : i <= j
\* the options the client was constructed with
Options     == ret.client.kwargs
Constructed == Created /\ ret.raised = NoError
\* AZURE_OPENAI_ENDPOINT is in the environment / holds a non-empty value
AzureEnvSet      == \E i \in 1..Len(environ) : environ[i][1] = s_AZURE_OPENAI_ENDPOINT
AzureEnvNonEmpty == \E i \in 1..Len(environ) :
                        environ[i][1] = s_AZURE_OPENAI_ENDPOINT /\ environ[i][2] # <<>>
DashscopeUrl == /\ s_base_url \in DOMAIN ret.merged_conf
                /\ ret.merged_conf[s_base_url].t = "str"
                /\ Contains(s_dashscope_dot, ret.merged_conf[s_base_url].s)

(***************************************************************************)
(* C1: single-threaded, once a call for a role has succeeded every later   *)
(* call for that role returns the identical client and constructs          *)
(* nothing, whatever happens in between (calls for other roles, failed     *)
(* calls, changes of the YAML file, the environment or the network); at    *)
(* most one client is ever constructed per role.                           *)
(***************************************************************************)
C1_CacheIdempotent ==
    [][ /\ \A r \in Roles : Cardinality(ObjectsOf(objects', r)) <= 1
        /\ \A r \in Roles :
              ObjectsOf(objects, r) # {} =>
                  /\ ObjectsOf(objects', r) = ObjectsOf(objects, r)
                  /\ (ret' # ret /\ ret'.llm_type = r) =>
                        /\ ret'.raised = NoError
                        /\ ret'.llm \in {o.id : o \in ObjectsOf(objects, r)}
                        /\ ~ret'.constructed ]_vars

\* basic is served from the cache while the YAML file no longer loads and
\* clients of other roles have been constructed
C1_Witness ==
    /\ ret.fn = "get_llm_by_type"
    /\ ret.llm_type = basic
    /\ ret.raised = NoError
    /\ ~ret.constructed
    /\ ret.llm = 1
    /\ yaml_file = FileMalformed
    /\ Cardinality(objects) = 3

(***************************************************************************)
(* C2: the merged configuration has exactly the YAML keys and the          *)
(* environment keys (prefix stripped, lower-cased); a key on both sides    *)
(* carries an environment value, a key on one side carries that side's.    *)
(***************************************************************************)
C2_MergedIsEnvOverYaml ==
    (Created /\ HasSection /\ Section.t = "dict") =>
        /\ DOMAIN ret.merged_conf = DOMAIN YamlOptions \cup EnvOptions
        /\ \A k \in EnvOptions :
              \E i \in RoleVars : OptionOf(i) = k /\ ret.merged_conf[k] = StrV(environ[i][2])
        /\ \A k \in DOMAIN YamlOptions \ EnvOptions : ret.merged_conf[k] = YamlOptions[k]

\* api_key is in the YAML section and in the environment (as API_KEY), model in
\* the YAML section only: the merged api_key is the environment's
C2_Witness ==
    /\ Created
    /\ s_api_key \in DOMAIN YamlOptions /\ s_model \in DOMAIN YamlOptions
    /\ \E i \in RoleVars : environ[i][1] = RolePrefix \o s_API_KEY
    /\ ret.merged_conf[s_api_key] # YamlOptions[s_api_key]
    /\ ret.merged_conf[s_model] = YamlOptions[s_model]

(***************************************************************************)
(* C3: with an empty or absent YAML section, no environment variable of    *)
(* the role's prefix and no candidate answering 200, the call raises the   *)
(* missing-configuration error naming the role and constructs no client;   *)
(* when a candidate answers, the configuration is {api_base: <url>,        *)
(* api_key: "lm-studio", streaming: true} and nothing is raised.           *)
(***************************************************************************)
NothingConfigured ==
    /\ Created
    /\ ~HasSection \/ Section = DictV(EmptyDict)
    /\ yaml_file.kind = "parsed" => yaml_file.doc.t = "dict"
    /\ RoleVars = {}

\* C3: nothing configured: the missing-configuration error naming the role and
\* no client when no candidate answers 200, the LM Studio configuration and no
\* error when one does
C3_MissingOrLmStudio ==
    NothingConfigured =>
        IF Answering = {}
        THEN /\ ret.raised = Error("ValueError", "No configuration found", RoleOf)
             /\ ret.client = NoClient
        ELSE /\ ret.raised = NoError
             /\ ret.client # NoClient
             /\ ret.resolved_conf =
                    [k \in {s_api_base, s_api_key, s_streaming} |->
                        CASE k = s_api_base -> StrV(Candidates[FirstAnswering] \o s_v1)
                          [] k = s_api_key  -> StrV(s_lm_studio)
                          [] OTHER          -> BoolV(TRUE)]

C3_Witness ==
    /\ NothingConfigured
    /\ Answering = {}
    /\ Len(ret.gets) = 4
    /\ ret.raised.msg = "No configuration found"

(***************************************************************************)
(* C4: when base_url contains "dashscope." the options of the constructed  *)
(* client carry enable_thinking: true for role reasoning and               *)
(* enable_thinking: false for basic, vision and code.  As claimed, for     *)
(* every such configuration; as amended, when the Azure rule does not      *)
(* apply.                                                                  *)
(***************************************************************************)
EnableThinkingByRole ==
    /\ s_extra_body \in DOMAIN Options
    /\ Options[s_extra_body] =
          DictV([k \in {s_enable_thinking} |->
                    IF RoleOf = reasoning THEN BoolV(TRUE) ELSE BoolV(FALSE)])

\* C4 as claimed: a dashscope base_url gives enable_thinking by role, always
C4_Claimed == (Constructed /\ DashscopeUrl) => EnableThinkingByRole

\* C4 as amended: a dashscope base_url gives enable_thinking by role when the
\* configuration has no azure_endpoint and AZURE_OPENAI_ENDPOINT is unset or empty
C4_DashscopeThinking ==
    ( /\ Constructed
      /\ DashscopeUrl
      /\ s_azure_endpoint \notin DOMAIN ret.merged_conf
      /\ ~AzureEnvNonEmpty ) => EnableThinkingByRole

C4_Witness ==
    /\ Constructed /\ DashscopeUrl /\ RoleOf = vision
    /\ ret.client.cls = "ChatDashscope"
    /\ Options[s_extra_body].d[s_enable_thinking] = BoolV(FALSE)

(***************************************************************************)
(* C5: for role reasoning and a base_url without "dashscope.", the options *)
(* carry api_base equal to the configured base_url and no base_url.  As    *)
(* claimed, for every such configuration; as amended, when the Azure rule  *)
(* does not apply.                                                         *)
(***************************************************************************)
PlainUrl ==
    /\ s_base_url \in DOMAIN ret.merged_conf
    /\ ret.merged_conf[s_base_url].t = "str"
    /\ ~Contains(s_dashscope_dot, ret.merged_conf[s_base_url].s)

BaseUrlRenamed ==
    /\ s_api_base \in DOMAIN Options
    /\ Options[s_api_base] = ret.merged_conf[s_base_url]
    /\ s_base_url \notin DOMAIN Options

\* C5 as claimed: reasoning with a plain base_url gets it as api_base, always
C5_Claimed == (Constructed /\ RoleOf = reasoning /\ PlainUrl) => BaseUrlRenamed

\* C5 as amended: reasoning with a plain base_url gets it as api_base, and no
\* base_url, when the configuration has no azure_endpoint and
\* AZURE_OPENAI_ENDPOINT is unset or empty
C5_ReasoningApiBase ==
    ( /\ Constructed
      /\ RoleOf = reasoning
      /\ PlainUrl
      /\ s_azure_endpoint \notin DOMAIN ret.merged_conf
      /\ ~AzureEnvNonEmpty ) => BaseUrlRenamed

C5_Witness ==
    /\ Constructed /\ RoleOf = reasoning /\ PlainUrl
    /\ ret.merged_conf[s_base_url] = StrV(url_nodot)
    /\ ret.client.cls = "ChatDeepSeek"
    /\ Options[s_api_base] = StrV(url_nodot)

(***************************************************************************)
(* C8: exactly one provider is chosen, by the first rule that matches:     *)
(* Azure, Dashscope, the reasoning client, the generic client.  As         *)
(* claimed, the Azure rule reads AZURE_OPENAI_ENDPOINT as "set"; as        *)
(* amended, as "set to a non-empty value".                                 *)
(***************************************************************************)
ProviderBy(azure_env) ==
    IF s_azure_endpoint \in DOMAIN ret.merged_conf \/ azure_env THEN "AzureChatOpenAI"
    ELSE IF DashscopeUrl THEN "ChatDashscope"
    ELSE IF RoleOf = reasoning THEN "ChatDeepSeek"
    ELSE "ChatOpenAI"

\* C8 as claimed: the first matching rule decides, Azure whenever
\* AZURE_OPENAI_ENDPOINT is in the environment
C8_Claimed == Constructed => ret.client.cls = ProviderBy(AzureEnvSet)

\* C8 as amended: the first matching rule decides, Azure when the configuration
\* has azure_endpoint or AZURE_OPENAI_ENDPOINT holds a non-empty value
C8_ProviderOrder == Constructed => ret.client.cls = ProviderBy(AzureEnvNonEmpty)

\* Azure wins over a dashscope base_url and over role reasoning
C8_Witness ==
    /\ Constructed /\ RoleOf = reasoning /\ DashscopeUrl
    /\ s_azure_endpoint \notin DOMAIN ret.merged_conf
    /\ AzureEnvNonEmpty
    /\ ret.client.cls = "AzureChatOpenAI"

(***************************************************************************)
(* C10: the options never carry verify_ssl; when the merged verify_ssl is  *)
(* false (in the YAML section or as an environment override) they carry    *)
(* an http_client and an http_async_client with verification disabled;     *)
(* when it is absent or true they carry neither.                           *)
(***************************************************************************)
VerifySslFalse ==
    /\ s_verify_ssl \in DOMAIN ret.merged_conf
    /\ ret.merged_conf[s_verify_ssl] \in {BoolV(FALSE), StrV(s_false)}
VerifySslAbsentOrTrue ==
    s_verify_ssl \in DOMAIN ret.merged_conf => ret.merged_conf[s_verify_ssl] = BoolV(TRUE)

\* C10 as claimed: no verify_ssl in the options; both transports, unverified,
\* when verify_ssl is false in YAML or environment; neither when absent or true
C10_Claimed ==
    Constructed =>
        /\ s_verify_ssl \notin DOMAIN Options
        /\ VerifySslFalse =>
              /\ s_http_client \in DOMAIN Options
              /\ s_http_async_client \in DOMAIN Options
              /\ Options[s_http_client] = HttpxClient(FALSE)
              /\ Options[s_http_async_client] = HttpxAsyncClient(FALSE)
        /\ VerifySslAbsentOrTrue =>
              /\ s_http_client \notin DOMAIN Options
              /\ s_http_async_client \notin DOMAIN Options

(***************************************************************************)
(* C7: _detect_lmstudio_base_url never raises; it returns <candidate>/v1   *)
(* for the first candidate in order that answers 200, requests nothing     *)
(* after it, and returns None when no candidate answers 200.               *)
(***************************************************************************)
Detected == ret.fn = "_detect_lmstudio_base_url"

\* C7: no exception; the first candidate answering 200 is returned with /v1,
\* it is the last address requested and none before it answered 200; None
\* when no candidate answers 200
C7_FirstAnsweringWins ==
    Detected =>
        /\ ~ret.raises
        /\ IF Answering = {}
           THEN /\ ret.url = NoneV
                /\ Len(ret.gets) >= Len(candidate_hosts)
           ELSE /\ ret.url = StrV(Candidates[FirstAnswering] \o s_v1)
                /\ ret.gets # <<>>
                /\ ret.gets[Len(ret.gets)] = Candidates[FirstAnswering] \o s_v1_models
                /\ \A j \in 1..(Len(ret.gets) - 1) :
                      HttpGet(network, ret.gets[j]) # Response(200)

\* the LAN host refuses, localhost answers 404, 127.0.0.1 answers 200 and so
\* does the last candidate, which is not requested
C7_Witness ==
    /\ Detected
    /\ LanHostSet
    /\ Answering = {3, 4}
    /\ HttpGet(network, Candidates[1] \o s_v1_models) = Refused
    /\ HttpGet(network, Candidates[2] \o s_v1_models) = Response(404)
    /\ ret.url = StrV(host_loopback \o s_v1)
    /\ Len(ret.gets) = 3

(***************************************************************************)
(* C6: get_configured_llm_models never raises; when a step fails (the file *)
(* does not load, the document is no mapping, a role's section is no       *)
(* mapping) it returns the empty mapping, dropping the roles already       *)
(* processed; otherwise it returns, for each role whose merged             *)
(* configuration has a non-empty model, exactly that model name.           *)
(***************************************************************************)
Listed == ret.fn = "get_configured_llm_models"

SectionOf(r) == yaml_file.doc.d[_get_llm_type_config_keys[r]]
HasSectionOf(r) == _get_llm_type_config_keys[r] \in DOMAIN yaml_file.doc.d

StepFails ==
    \/ yaml_file.kind = "malformed"
    \/ /\ yaml_file.kind = "parsed"
       /\ \/ yaml_file.doc.t # "dict"
          \/ \E r \in Roles : HasSectionOf(r) /\ SectionOf(r).t # "dict"

\* the environment variables <ROLE>_MODEL__<x> whose x lower-cases to model
ModelVars(r) ==
    {i \in 1..Len(environ) :
        /\ StartsWith(environ[i][1], _get_llm_type_config_keys[r] \o <<"_", "_">>)
        /\ Lower(SubSeq(environ[i][1], Len(_get_llm_type_config_keys[r]) + 3,
                        Len(environ[i][1]))) = s_model}

\* the model of the merged configuration of r: the environment's, else the
\* YAML section's, else none
MergedModel(r) ==
    IF ModelVars(r) # {}
    THEN environ[CHOOSE i \in ModelVars(r) : \A j \in ModelVars(r) : j <= i][2]
    ELSE IF /\ yaml_file.kind = "parsed"
            /\ HasSectionOf(r)
            /\ s_model \in DOMAIN SectionOf(r).d
         THEN SectionOf(r).d[s_model].s
         ELSE <<>>

\* C6: no exception; the empty mapping when a step fails, else exactly the
\* non-empty merged model of each role
C6_NeverRaises ==
    Listed =>
        /\ ~ret.raises
        /\ IF StepFails
           THEN ret.models = EmptyDict
           ELSE ret.models =
                    [r \in {x \in Roles : MergedModel(x) # <<>>} |-> <<StrV(MergedModel(r))>>]

\* basic has a model, a later role's section is no mapping: nothing is returned
C6_Witness ==
    /\ Listed
    /\ yaml_file.kind = "parsed" /\ yaml_file.doc.t = "dict"
    /\ HasSectionOf(basic) /\ SectionOf(basic) = DictV((s_model :> StrV(model_1)))
    /\ HasSectionOf(code) /\ SectionOf(code).t = "str"
    /\ ret.warned
    /\ ret.models = EmptyDict

(***************************************************************************)
(* C9: when threads call get_llm_by_type concurrently for a role that is   *)
(* not cached, both can pass the cache test and construct a client; the    *)
(* cache then holds the one stored last and the other is not in it.        *)
(***************************************************************************)
StoredOf(r) == {o \in ObjectsOf(objects, r) : o.stored > 0}

\* C9: of the clients constructed and stored for a role, the cache holds the
\* one stored last
C9_LastStoreWins ==
    \A r \in Roles :
        StoredOf(r) # {} =>
            /\ r \in DOMAIN llm_cache
            /\ \E o \in StoredOf(r) :
                  /\ llm_cache[r] = o.id
                  /\ \A x \in StoredOf(r) : x.stored <= o.stored

\* two threads have constructed a client for the same role, both have stored
\* theirs and returned; the cache holds the second one stored
C9_Witness ==
    \E r \in Roles :
        /\ \A t \in Threads : pc[t] = "done"
        /\ Cardinality(ObjectsOf(objects, r)) >= 2
        /\ StoredOf(r) = ObjectsOf(objects, r)
        /\ \E o \in StoredOf(r) : o.stored = 2 /\ llm_cache[r] = o.id
        /\ \E o \in StoredOf(r) : o.stored = 1 /\ llm_cache[r] # o.id
====
